---------------------------- MODULE Spec2Model ----------------------------
(***************************************************************************)
(* A model of src/gpp/gpp.cpp: the GPP reduction kernel noflagOCC_solver,  *)
(* the sizing and initialisation done by main, and the correctness check.  *)
(*                                                                         *)
(* dataType is double (line 14): values are IEEE 754 binary64 numbers and  *)
(* every operation rounds to nearest, ties to even.  Where a statement is  *)
(* made of the arithmetic taken as exact, it is made of the runs in which  *)
(* no operation rounds.                                                    *)
(* CustomComplex.h and commonDefines.h are not among the source files; the *)
(* complex operations, the 2D accessor macros and the array sizes are      *)
(* modelled from sections 3, 4.1 and 6 of the specification.               *)
(***************************************************************************)
EXTENDS Integers, Sequences, FiniteSets, TLC

VARIABLES ks, hist, env, aux

vars == <<ks, hist, env, aux>>

(***************************************************************************)
(* Bounds of the model.                                                    *)
(***************************************************************************)
MaxBands == 2

MaxGpown == 2

MaxCouls == 2

MaxSeed == 2

MaxTimer == 1

(***************************************************************************)
(* Program constants.                                                      *)
(***************************************************************************)
nstart == 0

nend == 3

Abs(x) == IF x < 0 THEN -x ELSE x

(***************************************************************************)
(* Natural numbers of any size, as sequences of limbs of LimbBits bits,    *)
(* lowest limb first, without leading zero limbs.                          *)
(***************************************************************************)
LimbBits == 14

Base == 16384

MantissaBits == 53

MinExp == -1074

MaxTop == 1024

Max2(a, b) == IF a >= b THEN a ELSE b

(* number of bits of a limb *)
IntBitLen(x) == CHOOSE k \in 0 .. LimbBits : x < 2^k /\ (k = 0 \/ 2^(k - 1) <= x)

(* number of trailing zero bits of a limb x > 0 *)
IntTz(x) == CHOOSE k \in 0 .. (LimbBits - 1) : x % 2^k = 0 /\ x % 2^(k + 1) # 0

RECURSIVE BOfInt(_)
BOfInt(n) == IF n = 0 THEN <<>> ELSE <<n % Base>> \o BOfInt(n \div Base)

BNorm(a) ==
    CHOOSE r \in
        { IF \A i \in DOMAIN x : x[i] = 0 THEN <<>>
          ELSE SubSeq(x, 1, CHOOSE i \in DOMAIN x :
                                x[i] # 0 /\ \A j \in DOMAIN x : j > i => x[j] = 0)
          : x \in {a} } : TRUE

RECURSIVE BCarry(_, _, _)
BCarry(w, i, c) ==
    CHOOSE r \in
        { IF i > Len(x)
          THEN (IF cc = 0 THEN <<>> ELSE <<cc % Base>> \o BCarry(<<>>, 1, cc \div Base))
          ELSE <<(x[i] + cc) % Base>> \o BCarry(x, i + 1, (x[i] + cc) \div Base)
          : x \in {w}, cc \in {c} } : TRUE

BLimb(a, i) == IF i >= 1 /\ i <= Len(a) THEN a[i] ELSE 0

BitLen(a) ==
    CHOOSE r \in
        { IF x = <<>> THEN 0 ELSE (Len(x) - 1) * LimbBits + IntBitLen(x[Len(x)])
          : x \in {a} } : TRUE

BAdd(a, b) ==
    CHOOSE r \in
        { BNorm(BCarry([i \in 1 .. Max2(Len(x), Len(y)) |-> BLimb(x, i) + BLimb(y, i)], 1, 0))
          : x \in {a}, y \in {b} } : TRUE

(* a - b for a >= b *)
BSub(a, b) ==
    CHOOSE r \in
        { BNorm(BCarry([i \in 1 .. Len(x) |-> x[i] - BLimb(y, i)], 1, 0))
          : x \in {a}, y \in {b} } : TRUE

RECURSIVE SumProd(_, _, _, _)
SumProd(a, b, k, i) ==
    IF i > Len(a) \/ i > k THEN 0
    ELSE BLimb(a, i) * BLimb(b, k + 1 - i) + SumProd(a, b, k, i + 1)

BMul(a, b) ==
    CHOOSE r \in
        { IF x = <<>> \/ y = <<>> THEN <<>>
          ELSE BNorm(BCarry([k \in 1 .. (Len(x) + Len(y) - 1) |-> SumProd(x, y, k, 1)], 1, 0))
          : x \in {a}, y \in {b} } : TRUE

(* a * 2^k *)
BShl(a, k) ==
    CHOOSE r \in
        { BNorm([j \in 1 .. (Len(x) + (n \div LimbBits) + 1) |->
                    ((BLimb(x, j - (n \div LimbBits)) * 2^(n % LimbBits)) % Base)
                    + ((BLimb(x, j - (n \div LimbBits) - 1) * 2^(n % LimbBits)) \div Base)])
          : x \in {a}, n \in {k} } : TRUE

(* a \div 2^k *)
BShr(a, k) ==
    CHOOSE r \in
        { IF n \div LimbBits >= Len(x) THEN <<>>
          ELSE BNorm([j \in 1 .. (Len(x) - (n \div LimbBits)) |->
                    (BLimb(x, j + (n \div LimbBits)) \div 2^(n % LimbBits))
                    + ((BLimb(x, j + (n \div LimbBits) + 1) % 2^(n % LimbBits))
                           * 2^(LimbBits - (n % LimbBits)))])
          : x \in {a}, n \in {k} } : TRUE

(* bit k of a, bit 0 the lowest *)
BBit(a, k) == (BLimb(a, (k \div LimbBits) + 1) \div 2^(k % LimbBits)) % 2

(* a % 2^k = 0 *)
BLowZero(a, k) ==
    /\ \A i \in 1 .. (k \div LimbBits) : BLimb(a, i) = 0
    /\ BLimb(a, (k \div LimbBits) + 1) % 2^(k % LimbBits) = 0

(* trailing zero bits of a # 0 *)
BTz(a) ==
    CHOOSE r \in
        { (i - 1) * LimbBits + IntTz(x[i])
          : x \in {a},
            i \in {CHOOSE i \in DOMAIN a : a[i] # 0 /\ \A j \in DOMAIN a : j < i => a[j] = 0} } : TRUE

(* -1, 0, 1 as a < b, a = b, a > b *)
BCmp(a, b) ==
    CHOOSE r \in
        { IF Len(x) # Len(y) THEN (IF Len(x) < Len(y) THEN -1 ELSE 1)
          ELSE IF x = y THEN 0
          ELSE IF x[CHOOSE i \in DOMAIN x : x[i] # y[i] /\ \A j \in DOMAIN x : j > i => x[j] = y[j]]
                  < y[CHOOSE i \in DOMAIN x : x[i] # y[i] /\ \A j \in DOMAIN x : j > i => x[j] = y[j]]
               THEN -1 ELSE 1
          : x \in {a}, y \in {b} } : TRUE

(* 2 * a + bit *)
BDbl(a, bit) ==
    CHOOSE r \in
        { IF x = <<>> THEN (IF bit = 1 THEN <<1>> ELSE <<>>)
          ELSE BCarry([i \in 1 .. Len(x) |-> 2 * x[i] + (IF i = 1 THEN bit ELSE 0)], 1, 0)
          : x \in {a} } : TRUE

(* 2^28: half of a 56-bit value *)
Word == Base * Base

WordTop == Word \div 2

(* Long division of num by d, for d below 2^53 and a quotient below 2^56.   *)
(* The remainder and the quotient are held as two halves of 28 bits:       *)
(* st = <<rem high, rem low, quotient high, quotient low>>.  One step      *)
(* takes in bit p of num.                                                  *)
BDivStep(num, dh, dl, st, p) ==
    CHOOSE r \in
        { IF h > dh \/ (h = dh /\ l >= dl)
          THEN <<h - dh - (IF l < dl THEN 1 ELSE 0), (l - dl) % Word,
                 2 * st[3] + (st[4] \div WordTop),
                 ((2 * st[4]) % Word) + 1>>
          ELSE <<h, l,
                 2 * st[3] + (st[4] \div WordTop),
                 (2 * st[4]) % Word>>
          : h \in {2 * st[1] + (st[2] \div WordTop)},
            l \in {((2 * st[2]) % Word) + BBit(num, p)} } : TRUE

(* n steps, from bit p down *)
RECURSIVE BDivBits(_, _, _, _, _, _)
BDivBits(num, dh, dl, st, p, n) ==
    CHOOSE r \in
        { IF n = 1 THEN nx ELSE BDivBits(num, dh, dl, nx, p - 1, n - 1)
          : nx \in {BDivStep(num, dh, dl, st, p)} } : TRUE

(* the steps for bits p .. 0, LimbBits at a time *)
RECURSIVE BDivRun(_, _, _, _, _)
BDivRun(num, dh, dl, st, p) ==
    CHOOSE r \in
        { IF p < LimbBits THEN nx ELSE BDivRun(num, dh, dl, nx, p - ((p % LimbBits) + 1))
          : nx \in {BDivBits(num, dh, dl, st, p, (p % LimbBits) + 1)} } : TRUE

BHigh(a) == BLimb(a, 3) + BLimb(a, 4) * Base

BLow(a) == BLimb(a, 1) + BLimb(a, 2) * Base

BOfHalves(h, l) == BNorm(<<l % Base, l \div Base, h % Base, h \div Base>>)

(* quotient and remainder of num by d, where d # 0 has at most 53 bits and *)
(* num has exactly 54 bits more than d                                      *)
BDivMod(num, d) ==
    CHOOSE r \in
        { [q |-> BOfHalves(st[3], st[4]), r |-> BOfHalves(st[1], st[2])]
          : st \in {BDivRun(num, BHigh(d), BLow(d),
                            <<BHigh(BShr(num, 55)), BLow(BShr(num, 55)), 0, 0>>, 54)} } : TRUE

(***************************************************************************)
(* IEEE 754 binary64, round to nearest even.  A finite value is            *)
(* (-1)^s * m * 2^e with m odd (or zero, with e = 0).                      *)
(***************************************************************************)
DZero(s) == [k |-> "fin", s |-> s, m |-> <<>>, e |-> 0]

DInf(s) == [k |-> "inf", s |-> s, m |-> <<>>, e |-> 0]

DNaN == [k |-> "nan", s |-> 0, m |-> <<>>, e |-> 0]

(* the value m * 2^e, exactly representable, in canonical form *)
DCanon(s, m, e) ==
    CHOOSE r \in
        { IF x = <<>> THEN DZero(s)
          ELSE IF BitLen(x) + e > MaxTop THEN DInf(s)
          ELSE [k |-> "fin", s |-> s, m |-> BShr(x, BTz(x)), e |-> e + BTz(x)]
          : x \in {m} } : TRUE

(* m with its drop lowest bits rounded away, to nearest, ties to even *)
DRoundBits(s, m, e, drop) ==
    CHOOSE r \in
        { IF BBit(m, drop - 1) = 1 /\ (~BLowZero(m, drop - 1) \/ BBit(q, 0) = 1)
          THEN DCanon(s, BAdd(q, <<1>>), e + drop)
          ELSE DCanon(s, q, e + drop)
          : q \in {BShr(m, drop)} } : TRUE

(* the double nearest to m * 2^e *)
DRound(s, m, e) ==
    CHOOSE r \in
        { IF x = <<>> THEN DZero(s)
          ELSE IF Max2(BitLen(x) - MantissaBits, MinExp - e) <= 0 THEN DCanon(s, x, e)
          ELSE DRoundBits(s, x, e, Max2(BitLen(x) - MantissaBits, MinExp - e))
          : x \in {m} } : TRUE

(* the double nearest to (n / d) * 2^e for 0 < n, d < 2^53: the quotient   *)
(* to 54 or 55 bits, with one more bit that says whether a remainder is    *)
(* left                                                                    *)
DRoundRatio(s, n, d, e) ==
    CHOOSE r \in
        { DRound(s, BDbl(qr.q, IF qr.r = <<>> THEN 0 ELSE 1), e - sh - 1)
          : qr \in {BDivMod(BShl(n, 54 + BitLen(d) - BitLen(n)), d)},
            sh \in {54 + BitLen(d) - BitLen(n)} } : TRUE

DNeg(a) == IF a.k = "nan" THEN a ELSE [a EXCEPT !.s = 1 - a.s]

DXor(s, t) == IF s = t THEN 0 ELSE 1

DMul(a, b) ==
    CHOOSE r \in
        { IF x.k = "nan" \/ y.k = "nan" THEN DNaN
          ELSE IF x.k = "inf" \/ y.k = "inf"
               THEN (IF (x.k = "fin" /\ x.m = <<>>) \/ (y.k = "fin" /\ y.m = <<>>)
                     THEN DNaN ELSE DInf(DXor(x.s, y.s)))
          ELSE DRound(DXor(x.s, y.s), BMul(x.m, y.m), x.e + y.e)
          : x \in {a}, y \in {b} } : TRUE

(* x + y for finite non-zero x, y with x.e >= y.e: exactly, then rounded *)
DAddAligned(x, y) ==
    CHOOSE r \in
        { IF x.s = y.s THEN DRound(x.s, BAdd(xm, ym), em)
          ELSE IF BCmp(xm, ym) = 0 THEN DZero(0)
          ELSE IF BCmp(xm, ym) > 0 THEN DRound(x.s, BSub(xm, ym), em)
          ELSE DRound(y.s, BSub(ym, xm), em)
          : xm \in {IF x.e - y.e > 128 THEN BShl(x.m, 64) ELSE BShl(x.m, x.e - y.e)},
            ym \in {IF x.e - y.e > 128 THEN <<1>> ELSE y.m},
            em \in {IF x.e - y.e > 128 THEN x.e - 64 ELSE y.e} } : TRUE

DAdd(a, b) ==
    CHOOSE r \in
        { IF x.k = "nan" \/ y.k = "nan" THEN DNaN
          ELSE IF x.k = "inf"
               THEN (IF y.k = "inf" /\ y.s # x.s THEN DNaN ELSE x)
          ELSE IF y.k = "inf" THEN y
          ELSE IF x.m = <<>>
               THEN (IF y.m = <<>> THEN DZero(IF x.s = 1 /\ y.s = 1 THEN 1 ELSE 0) ELSE y)
          ELSE IF y.m = <<>> THEN x
          ELSE IF x.e >= y.e THEN DAddAligned(x, y) ELSE DAddAligned(y, x)
          : x \in {a}, y \in {b} } : TRUE

DSub(a, b) == DAdd(a, DNeg(b))

DDiv(a, b) ==
    CHOOSE r \in
        { IF x.k = "nan" \/ y.k = "nan" THEN DNaN
          ELSE IF x.k = "inf" THEN (IF y.k = "inf" THEN DNaN ELSE DInf(DXor(x.s, y.s)))
          ELSE IF y.k = "inf" THEN DZero(DXor(x.s, y.s))
          ELSE IF y.m = <<>> THEN (IF x.m = <<>> THEN DNaN ELSE DInf(DXor(x.s, y.s)))
          ELSE IF x.m = <<>> THEN DZero(DXor(x.s, y.s))
          ELSE DRoundRatio(DXor(x.s, y.s), x.m, y.m, x.e - y.e)
          : x \in {a}, y \in {b} } : TRUE

(* a < b *)
DLess(a, b) ==
    CHOOSE r \in
        { IF x.k = "nan" \/ y.k = "nan" \/ x = y THEN FALSE
          ELSE d.s = 1 /\ (d.k = "inf" \/ d.m # <<>>)
          : x \in {a}, y \in {b}, d \in {DSub(a, b)} } : TRUE

DInt(n) == DCanon(IF n < 0 THEN 1 ELSE 0, BOfInt(IF n < 0 THEN -n ELSE n), 0)

(* the decimal literal n / d *)
DLit(n, d) ==
    IF n = 0 THEN DZero(0)
    ELSE DRoundRatio(IF n < 0 THEN 1 ELSE 0, BOfInt(IF n < 0 THEN -n ELSE n), BOfInt(d), 0)

DAbs(a) == IF a.k = "nan" THEN a ELSE [a EXCEPT !.s = 0]

(* a == b: no NaN equals anything, and -0 equals +0 *)
DEq(a, b) ==
    /\ a.k # "nan" /\ b.k # "nan"
    /\ a = b \/ (a.k = "fin" /\ b.k = "fin" /\ a.m = <<>> /\ b.m = <<>>)

(***************************************************************************)
(* Whether an operation rounds: the result of an exact operation is the    *)
(* real number the operation denotes (the IEEE 754 inexact exception is    *)
(* not raised).                                                            *)
(***************************************************************************)
(* m * 2^e is a double *)
DRoundExact(m, e) ==
    CHOOSE r \in
        { \/ x = <<>>
          \/ /\ BitLen(x) + e <= MaxTop
             /\ \/ Max2(BitLen(x) - MantissaBits, MinExp - e) <= 0
                \/ BLowZero(x, Max2(BitLen(x) - MantissaBits, MinExp - e))
          : x \in {m} } : TRUE

DMulExact(a, b) ==
    CHOOSE r \in
        { x.k = "fin" /\ y.k = "fin" /\ DRoundExact(BMul(x.m, y.m), x.e + y.e)
          : x \in {a}, y \in {b} } : TRUE

(* x + y for finite non-zero x, y with x.e >= y.e *)
DAddAlignedExact(x, y) ==
    /\ x.e - y.e <= 128
    /\ CHOOSE r \in
          { IF x.s = y.s THEN DRoundExact(BAdd(xm, y.m), y.e)
            ELSE IF BCmp(xm, y.m) >= 0 THEN DRoundExact(BSub(xm, y.m), y.e)
            ELSE DRoundExact(BSub(y.m, xm), y.e)
            : xm \in {BShl(x.m, x.e - y.e)} } : TRUE

DAddExact(a, b) ==
    CHOOSE r \in
        { /\ x.k = "fin" /\ y.k = "fin"
          /\ \/ x.m = <<>>
             \/ y.m = <<>>
             \/ IF x.e >= y.e THEN DAddAlignedExact(x, y) ELSE DAddAlignedExact(y, x)
          : x \in {a}, y \in {b} } : TRUE

(* a / b is exact when the quotient times b is a again, exactly *)
DDivExact(a, b) ==
    CHOOSE r \in
        { /\ x.k = "fin" /\ y.k = "fin" /\ y.m # <<>>
          /\ DMulExact(q, y)
          /\ DMul(q, y) = x
          : x \in {a}, y \in {b}, q \in {DDiv(a, b)} } : TRUE

(***************************************************************************)
(* CustomComplex<dataType>: a pair (re, im) with the standard algebra.     *)
(***************************************************************************)
Cx(re, im) == [re |-> re, im |-> im]

CustomComplex_conj(a) == CHOOSE r \in {Cx(x.re, DNeg(x.im)) : x \in {a}} : TRUE

CustomComplex_mul(a, b) ==
    CHOOSE r \in { Cx(DSub(DMul(x.re, y.re), DMul(x.im, y.im)),
                      DAdd(DMul(x.re, y.im), DMul(x.im, y.re)))
                   : x \in {a}, y \in {b} } : TRUE

(* CustomComplex * dataType *)
CustomComplex_scale(a, d) ==
    CHOOSE r \in {Cx(DMul(x.re, y), DMul(x.im, y)) : x \in {a}, y \in {d}} : TRUE

(* dataType - CustomComplex *)
CustomComplex_rsub(d, a) ==
    CHOOSE r \in {Cx(DSub(y, x.re), DNeg(x.im)) : x \in {a}, y \in {d}} : TRUE

(* no operation of a * b rounds *)
MulExact(a, b) ==
    CHOOSE r \in
        { /\ DMulExact(x.re, y.re) /\ DMulExact(x.im, y.im)
          /\ DMulExact(x.re, y.im) /\ DMulExact(x.im, y.re)
          /\ DAddExact(DMul(x.re, y.re), DNeg(DMul(x.im, y.im)))
          /\ DAddExact(DMul(x.re, y.im), DMul(x.im, y.re))
          : x \in {a}, y \in {b} } : TRUE

(* no operation of a * d rounds *)
ScaleExact(a, d) ==
    CHOOSE r \in {DMulExact(x.re, y) /\ DMulExact(x.im, y) : x \in {a}, y \in {d}} : TRUE

CustomComplex_real(a) == a.re

CustomComplex_imag(a) == a.im

(***************************************************************************)
(* The accessor macros: arr(r, c) is arr[r * ncouls + c].                  *)
(***************************************************************************)
FlatIndex(r, c, cols) == r * cols + c

At2(arr, r, c, cols) == arr[FlatIndex(r, c, cols)]

(***************************************************************************)
(* The kernel state: the arguments of noflagOCC_solver, the memory they    *)
(* point to, its loop variables and its position.  pc is one of            *)
(*   n1_test, igp_test, resolve, ig_test, iw_test, body: the loop nest     *)
(*   timer: the loop nest is over, elapsedKernelTimer is not yet written   *)
(*   done:  the function has returned                                      *)
(*   ub:    an access outside an array has happened (undefined behaviour;  *)
(*          nothing is claimed about what follows)                         *)
(***************************************************************************)
InDom(arr, i) == i \in DOMAIN arr

(* The accesses of the two index lookups of lines 104-105, as              *)
(* <<array, row, column>>.                                                 *)
ResolveAccesses(s) ==
    {<<"inv_igp_index", s.my_igp, 0>>}
    \cup (IF InDom(s.inv_igp_index, s.my_igp)
          THEN {<<"indinv", s.inv_igp_index[s.my_igp], 0>>}
          ELSE {})

(* The accesses of one execution of the innermost body, lines 112-123.     *)
BodyAccesses(s) ==
    { <<"wx_array", s.iw, 0>>,
      <<"wtilde_array", s.my_igp, s.ig>>,
      <<"I_eps_array", s.my_igp, s.ig>>,
      <<"aqsmtemp", s.n1, s.igp>>,
      <<"aqsntemp", s.n1, s.igp>>,
      <<"vcoul", s.igp, 0>>,
      <<"achtemp_re", s.iw, 0>>,
      <<"achtemp_im", s.iw, 0>> }

(* The extent of each array: rows and columns (section 6 of the            *)
(* specification: the sizes the caller allocates).                         *)
Extent(s, name) ==
    CASE name = "inv_igp_index" -> <<s.ngpown, 1>>
      [] name = "indinv"        -> <<s.ncouls + 1, 1>>
      [] name = "wx_array"      -> <<nend - nstart, 1>>
      [] name = "achtemp_re"    -> <<nend - nstart, 1>>
      [] name = "achtemp_im"    -> <<nend - nstart, 1>>
      [] name = "vcoul"         -> <<s.ncouls, 1>>
      [] name = "wtilde_array"  -> <<s.ngpown, s.ncouls>>
      [] name = "I_eps_array"   -> <<s.ngpown, s.ncouls>>
      [] name = "aqsmtemp"      -> <<s.number_bands, s.ncouls>>
      [] name = "aqsntemp"      -> <<s.number_bands, s.ncouls>>

InExtent(s, a) ==
    /\ 0 <= a[2] /\ a[2] < Extent(s, a[1])[1]
    /\ 0 <= a[3] /\ a[3] < Extent(s, a[1])[2]

(* The element of the flat buffer an access touches: the 2D arrays are     *)
(* addressed as r * ncouls + c, the others by their index.                 *)
FlatOf(s, a) ==
    IF a[1] \in {"wtilde_array", "I_eps_array", "aqsmtemp", "aqsntemp"}
    THEN FlatIndex(a[2], a[3], s.ncouls)
    ELSE a[2]

(* The access is inside the buffer as allocated; outside it the behaviour  *)
(* is undefined.                                                           *)
InMemory(s, a) == InDom(s[a[1]], FlatOf(s, a))

(* line 112-113 *)
wdiff(s) ==
    CustomComplex_rsub(s.wx_array[s.iw], At2(s.wtilde_array, s.my_igp, s.ig, s.ncouls))

(* lines 114-116 *)
delw(s) ==
    LET wd == wdiff(s)
    IN  CustomComplex_scale(
            CustomComplex_mul(At2(s.wtilde_array, s.my_igp, s.ig, s.ncouls),
                              CustomComplex_conj(wd)),
            DDiv(DInt(1), CustomComplex_real(CustomComplex_mul(wd, CustomComplex_conj(wd)))))

(* Mutant: aqsmtemp, aqsntemp and vcoul read at column ig, not igp. *)
sch_array_at_ig(s) ==
    CustomComplex_scale(
        CustomComplex_scale(
            CustomComplex_mul(
                CustomComplex_mul(
                    CustomComplex_mul(delw(s), At2(s.I_eps_array, s.my_igp, s.ig, s.ncouls)),
                    CustomComplex_conj(At2(s.aqsmtemp, s.n1, s.ig, s.ncouls))),
                At2(s.aqsntemp, s.n1, s.ig, s.ncouls)),
            DLit(1, 2)),
        s.vcoul[s.ig])

(* Mutant: the factor vcoul[igp] left out. *)
sch_array_without_vcoul(s) ==
    CustomComplex_scale(
        CustomComplex_mul(
            CustomComplex_mul(
                CustomComplex_mul(delw(s), At2(s.I_eps_array, s.my_igp, s.ig, s.ncouls)),
                CustomComplex_conj(At2(s.aqsmtemp, s.n1, s.igp, s.ncouls))),
            At2(s.aqsntemp, s.n1, s.igp, s.ncouls)),
        DLit(1, 2))

(* lines 117-119, in the order the expression is evaluated *)
sch_array(s) ==
    CustomComplex_scale(
        CustomComplex_scale(
            CustomComplex_mul(
                CustomComplex_mul(
                    CustomComplex_mul(delw(s), At2(s.I_eps_array, s.my_igp, s.ig, s.ncouls)),
                    CustomComplex_conj(At2(s.aqsmtemp, s.n1, s.igp, s.ncouls))),
                At2(s.aqsntemp, s.n1, s.igp, s.ncouls)),
            DLit(1, 2)),
        s.vcoul[s.igp])

(* line 99 *)
BandLoop(s) ==
    IF s.n1 < s.number_bands
    THEN [s EXCEPT !.my_igp = 0, !.pc = "igp_test"]
    ELSE [s EXCEPT !.pc = "timer"]

(* line 102 *)
GroupLoop(s) ==
    IF s.my_igp < s.ngpown
    THEN [s EXCEPT !.pc = "resolve"]
    ELSE [s EXCEPT !.n1 = s.n1 + 1, !.pc = "n1_test"]

(* lines 104-105 *)
Resolve(s) ==
    IF \A a \in ResolveAccesses(s) : InMemory(s, a)
    THEN [s EXCEPT !.indigp = s.inv_igp_index[s.my_igp],
                   !.igp = s.indinv[s.inv_igp_index[s.my_igp]],
                   !.ig = 0,
                   !.pc = "ig_test"]
    ELSE [s EXCEPT !.pc = "ub"]

(* Mutant: ig <= ncouls. *)
PlaneWaveLoop_inclusive(s) ==
    IF s.ig <= s.ncouls
    THEN [s EXCEPT !.iw = nstart, !.pc = "iw_test"]
    ELSE [s EXCEPT !.my_igp = s.my_igp + 1, !.pc = "igp_test"]

(* line 108 *)
PlaneWaveLoop(s) ==
    IF s.ig < s.ncouls
    THEN [s EXCEPT !.iw = nstart, !.pc = "iw_test"]
    ELSE [s EXCEPT !.my_igp = s.my_igp + 1, !.pc = "igp_test"]

(* Mutant: iw < nend - 1. *)
FrequencyLoop_short(s) ==
    IF s.iw < nend - 1
    THEN [s EXCEPT !.pc = "body"]
    ELSE [s EXCEPT !.ig = s.ig + 1, !.pc = "ig_test"]

(* line 110 *)
FrequencyLoop(s) ==
    IF s.iw < nend
    THEN [s EXCEPT !.pc = "body"]
    ELSE [s EXCEPT !.ig = s.ig + 1, !.pc = "ig_test"]

(* Mutant: achtemp_re[iw] = v. *)
AddRe_assign(s, iw, v) == [s EXCEPT !.achtemp_re[iw] = v]

(* line 122: achtemp_re[iw] += v *)
AddRe(s, iw, v) ==
    CHOOSE r \in {[s EXCEPT !.achtemp_re[iw] = DAdd(s.achtemp_re[iw], x)] : x \in {v}} : TRUE

(* line 123: achtemp_im[iw] += v *)
AddIm(s, iw, v) ==
    CHOOSE r \in {[s EXCEPT !.achtemp_im[iw] = DAdd(s.achtemp_im[iw], x)] : x \in {v}} : TRUE

(* Mutant: the factor 0.5 applied to vcoul[igp] in place. *)
Accumulate_halving_vcoul(s, sch) ==
    CHOOSE r \in
        { [AddIm(AddRe(s, s.iw, CustomComplex_real(v)), s.iw, CustomComplex_imag(v))
              EXCEPT !.vcoul[s.igp] = DMul(DLit(1, 2), s.vcoul[s.igp])]
          : v \in {sch} } : TRUE

(* lines 122-123 *)
Accumulate(s, sch) ==
    CHOOSE r \in { AddIm(AddRe(s, s.iw, CustomComplex_real(v)), s.iw, CustomComplex_imag(v))
                  : v \in {sch} } : TRUE

(* No operation of lines 112-119 rounds in state s. *)
SchExact(s) ==
    \E wt \in {At2(s.wtilde_array, s.my_igp, s.ig, s.ncouls)},
       eps \in {At2(s.I_eps_array, s.my_igp, s.ig, s.ncouls)},
       am \in {CustomComplex_conj(At2(s.aqsmtemp, s.n1, s.igp, s.ncouls))},
       an \in {At2(s.aqsntemp, s.n1, s.igp, s.ncouls)},
       wd \in {wdiff(s)} :
    \E wc \in {CustomComplex_conj(wd)} :
    \E inv \in {DDiv(DInt(1), CustomComplex_real(CustomComplex_mul(wd, wc)))},
       p1 \in {CustomComplex_mul(wt, wc)} :
    \E dl \in {CustomComplex_scale(p1, inv)} :
    \E p2 \in {CustomComplex_mul(dl, eps)} :
    \E p3 \in {CustomComplex_mul(p2, am)} :
    \E p4 \in {CustomComplex_mul(p3, an)} :
    \E p5 \in {CustomComplex_scale(p4, DLit(1, 2))} :
        /\ DAddExact(s.wx_array[s.iw], DNeg(wt.re))
        /\ MulExact(wd, wc)
        /\ DDivExact(DInt(1), CustomComplex_real(CustomComplex_mul(wd, wc)))
        /\ MulExact(wt, wc)
        /\ ScaleExact(p1, inv)
        /\ MulExact(dl, eps)
        /\ MulExact(p2, am)
        /\ MulExact(p3, an)
        /\ ScaleExact(p4, DLit(1, 2))
        /\ ScaleExact(p5, s.vcoul[s.igp])

(* No operation of lines 112-123 rounds in state s. *)
BodyExact(s) ==
    /\ SchExact(s)
    /\ \E sch \in {sch_array(s)} :
          /\ DAddExact(s.achtemp_re[s.iw], CustomComplex_real(sch))
          /\ DAddExact(s.achtemp_im[s.iw], CustomComplex_imag(sch))

(* lines 112-123, then ++iw *)
Body(s) ==
    IF \A a \in BodyAccesses(s) : InMemory(s, a)
    THEN [Accumulate(s, sch_array(s)) EXCEPT !.iw = s.iw + 1, !.pc = "iw_test"]
    ELSE [s EXCEPT !.pc = "ub"]

(* lines 130-132: the out-parameter is written when the loop nest is over; *)
(* t is the measured time.                                                 *)
WriteTimer(s, t) == [s EXCEPT !.elapsedKernelTimer = t, !.pc = "done"]

(* One step of the loop nest (lines 99-127). *)
KernelStep(s) ==
    CASE s.pc = "n1_test"  -> BandLoop(s)
      [] s.pc = "igp_test" -> GroupLoop(s)
      [] s.pc = "resolve"  -> Resolve(s)
      [] s.pc = "ig_test"  -> PlaneWaveLoop(s)
      [] s.pc = "iw_test"  -> FrequencyLoop(s)
      [] s.pc = "body"     -> Body(s)
      [] OTHER             -> s

InLoop(s) == s.pc \in {"n1_test", "igp_test", "resolve", "ig_test", "iw_test", "body"}

(* The whole loop nest, from s to the state in which it is over. *)
RECURSIVE RunLoop(_)
RunLoop(s) == IF InLoop(s) THEN RunLoop(KernelStep(s)) ELSE s

(* No operation of the loop nest run from s rounds. *)
RECURSIVE RunExact(_)
RunExact(s) ==
    IF InLoop(s)
    THEN /\ s.pc = "body" /\ (\A a \in BodyAccesses(s) : InMemory(s, a)) => BodyExact(s)
         /\ \E n \in {KernelStep(s)} : RunExact(n)
    ELSE TRUE


(***************************************************************************)
(* The arrays as main fills them (lines 263-298).                          *)
(***************************************************************************)
(* The int product of line 281 is defined when it fits a signed 32-bit     *)
(* int; a signed overflow is undefined behaviour.                          *)
IntMax == 2147483647

IntMulFits(a, b) == b = 0 \/ Abs(a) <= IntMax \div Abs(b)

(* C's int division truncates towards zero; b # 0. *)
IntDiv(a, b) ==
    LET q == Abs(a) \div Abs(b)
    IN  IF (a < 0) = (b < 0) THEN q ELSE -q

(* Mutant: (ig + 2) * ncouls / ngpown. *)
MainInvIgpIndex_off_by_one(ng, nc) ==
    [i \in 0 .. (ng - 1) |-> IntDiv((i + 2) * nc, ng)]

(* lines 280-281: inv_igp_index[ig] = (ig + 1) * ncouls / ngpown *)
MainInvIgpIndex(ng, nc) ==
    [i \in 0 .. (ng - 1) |-> IntDiv((i + 1) * nc, ng)]

(* Mutant: indinv[ncouls] = ncouls. *)
MainIndinv_no_sentinel(nc) == [i \in 0 .. nc |-> i]

(* lines 283-285: indinv[ig] = ig, and the extra slot indinv[ncouls] = ncouls - 1 *)
MainIndinv(nc) ==
    [i \in 0 .. nc |-> IF i < nc THEN i ELSE nc - 1]

(* line 217: expr(0.025, 0.025) *)
expr == Cx(DLit(25, 1000), DLit(25, 1000))

(* lines 263-275: every element of the four complex arrays is expr *)
MainComplex(rows, cols) == [i \in 0 .. (rows * cols - 1) |-> expr]

(* lines 293-298: e_lk - e_n1kq + dw * ((iw + 1) - 2), not below to1 = 1e-6 *)
MainWx ==
    [i \in nstart .. (nend - 1) |->
        LET w == DAdd(DSub(DInt(10), DInt(6)), DMul(DInt(1), DInt((i + 1) - 2)))
            to1 == DLit(1, 1000000)
        IN  IF DLess(w, to1) THEN to1 ELSE w]

(* lines 287-291 *)
MainAchtemp == [i \in nstart .. (nend - 1) |-> DZero(0)]

(* lines 277-278: vcoul[i] = i * 0.025 *)
MainVcoul(nc) == [i \in 0 .. (nc - 1) |-> DMul(DInt(i), DLit(25, 1000))]

(***************************************************************************)
(* Inputs of the kernel for the model: the arrays as main fills them       *)
(* (mk = "main"), and others (mk = "other") that satisfy the kernel's      *)
(* precondition and differ from row to row and from column to column,      *)
(* chosen by a seed sd.  wtilde_array keeps a non-zero imaginary part, so  *)
(* that no denominator is zero; for the even seeds every |wdiff|^2 is 1 or *)
(* 2, whose reciprocal is a double.                                        *)
(***************************************************************************)
SeedAqsm(sd, rows, cols) ==
    [i \in 0 .. (rows * cols - 1) |->
        Cx(DInt(sd + (i % cols)), DInt(1 + (i \div cols) - (i % cols)))]

SeedAqsn(sd, rows, cols) ==
    [i \in 0 .. (rows * cols - 1) |->
        Cx(DInt((i % cols) - sd), DInt(1 + (i \div cols)))]

SeedIeps(sd, rows, cols) ==
    [i \in 0 .. (rows * cols - 1) |->
        Cx(DInt(1 + (i \div cols)), DInt((i % cols) + sd))]

SeedWtilde(sd, rows, cols) ==
    [i \in 0 .. (rows * cols - 1) |->
        IF sd % 2 = 0
        THEN Cx(DInt(sd + 1), DInt(1 - 2 * (((i \div cols) + (i % cols)) % 2)))
        ELSE Cx(DInt(sd + (i \div cols)), DInt(1 + (((i \div cols) + (i % cols)) % 2)))]

SeedVcoul(sd, nc) == [i \in 0 .. (nc - 1) |-> DInt(sd + 2 * i)]

SeedWx(sd) == [i \in nstart .. (nend - 1) |-> DInt(sd + i)]

(* Accumulators that are not zero on entry, for the odd seeds. *)
SeedAchtempRe(sd) == [i \in nstart .. (nend - 1) |-> DInt((sd % 2) * (i + 1))]

SeedAchtempIm(sd) == [i \in nstart .. (nend - 1) |-> DInt(-(sd % 2))]

(* Index maps other than main's that satisfy the kernel's precondition:    *)
(* inv_igp_index in [0, ncouls], indinv in [0, ncouls) (ncouls - 1 in the  *)
(* extra slot).                                                            *)
SeedInvIgpIndex(ng, nc) == [i \in 0 .. (ng - 1) |-> (ng - 1 - i) % (nc + 1)]

SeedIndinv(nc) ==
    [i \in 0 .. nc |-> IF i < nc THEN nc - 1 - i ELSE nc - 1]

Seeds == 1 .. MaxSeed

TimerVals == 0 .. MaxTimer

(* The state in which noflagOCC_solver is entered, lines 79-99.            *)
(* elapsedKernelTimer is not initialised by main (line 201) and never      *)
(* read; it is 0 on entry here.                                            *)
KernelEntry(nb, ng, nc, mk, sd) ==
    [ pc |-> "n1_test",
      number_bands |-> nb, ngpown |-> ng, ncouls |-> nc,
      n1 |-> 0, my_igp |-> 0, ig |-> 0, iw |-> 0, indigp |-> 0, igp |-> 0,
      inv_igp_index |-> IF mk = "main" THEN MainInvIgpIndex(ng, nc) ELSE SeedInvIgpIndex(ng, nc),
      indinv        |-> IF mk = "main" THEN MainIndinv(nc) ELSE SeedIndinv(nc),
      wx_array      |-> IF mk = "main" THEN MainWx ELSE SeedWx(sd),
      vcoul         |-> IF mk = "main" THEN MainVcoul(nc) ELSE SeedVcoul(sd, nc),
      wtilde_array  |-> IF mk = "main" THEN MainComplex(ng, nc) ELSE SeedWtilde(sd, ng, nc),
      aqsmtemp      |-> IF mk = "main" THEN MainComplex(nb, nc) ELSE SeedAqsm(sd, nb, nc),
      aqsntemp      |-> IF mk = "main" THEN MainComplex(nb, nc) ELSE SeedAqsn(sd, nb, nc),
      I_eps_array   |-> IF mk = "main" THEN MainComplex(ng, nc) ELSE SeedIeps(sd, ng, nc),
      achtemp_re    |-> IF mk = "main" THEN MainAchtemp ELSE SeedAchtempRe(sd),
      achtemp_im    |-> IF mk = "main" THEN MainAchtemp ELSE SeedAchtempIm(sd),
      elapsedKernelTimer |-> 0 ]

NoHist == [entry |-> <<>>, visited |-> <<>>, resolved |-> <<>>, accesses |-> {}]

Idle == [pc |-> "idle"]

(***************************************************************************)
(* Spec: one call of noflagOCC_solver, step by step.                       *)
(***************************************************************************)
Init ==
    /\ \E nb \in 0 .. MaxBands, ng \in 0 .. MaxGpown, nc \in 0 .. MaxCouls :
          \/ ks = KernelEntry(nb, ng, nc, "main", 0)
          \/ \E sd \in Seeds : ks = KernelEntry(nb, ng, nc, "other", sd)
    /\ hist = [NoHist EXCEPT !.entry = ks]
    /\ env = Idle
    /\ aux = Idle

BandLoopStep ==
    /\ ks.pc = "n1_test"
    /\ ks' = BandLoop(ks)
    /\ UNCHANGED <<hist, env, aux>>

GroupLoopStep ==
    /\ ks.pc = "igp_test"
    /\ ks' = GroupLoop(ks)
    /\ UNCHANGED <<hist, env, aux>>

ResolveStep ==
    /\ ks.pc = "resolve"
    /\ ks' = Resolve(ks)
    /\ hist' = [hist EXCEPT !.resolved = Append(@, <<ks.n1, ks.my_igp>>),
                            !.accesses = @ \cup ResolveAccesses(ks)]
    /\ UNCHANGED <<env, aux>>

PlaneWaveLoopStep ==
    /\ ks.pc = "ig_test"
    /\ ks' = PlaneWaveLoop(ks)
    /\ UNCHANGED <<hist, env, aux>>

FrequencyLoopStep ==
    /\ ks.pc = "iw_test"
    /\ ks' = FrequencyLoop(ks)
    /\ UNCHANGED <<hist, env, aux>>

BodyStep ==
    /\ ks.pc = "body"
    /\ ks' = Body(ks)
    /\ hist' = [hist EXCEPT !.visited = Append(@, <<ks.n1, ks.my_igp, ks.ig, ks.iw>>),
                            !.accesses = @ \cup BodyAccesses(ks)]
    /\ UNCHANGED <<env, aux>>

ReturnStep ==
    /\ ks.pc = "timer"
    /\ \E t \in TimerVals : ks' = WriteTimer(ks, t)
    /\ UNCHANGED <<hist, env, aux>>

Next ==
    \/ BandLoopStep
    \/ GroupLoopStep
    \/ ResolveStep
    \/ PlaneWaveLoopStep
    \/ FrequencyLoopStep
    \/ BodyStep
    \/ ReturnStep


Spec == Init /\ [][Next]_vars

(* The loop nest is sequential code: a step that can be taken is taken. *)
FairSpec == Spec /\ WF_vars(Next)


(***************************************************************************)
(* Claims about one call of noflagOCC_solver (Spec, FairSpec).             *)
(***************************************************************************)
Returned == ks.pc = "done"

FreqIndices == nstart .. (nend - 1)

Triples(e) ==
    (0 .. (e.number_bands - 1)) \X (0 .. (e.ngpown - 1)) \X (0 .. (e.ncouls - 1))

TripleCount(e) == e.number_bands * e.ngpown * e.ncouls

(* The k-th triple (n1, my_igp, ig) in lexicographic order, k from 1. *)
TripleAt(e, k) ==
    <<(k - 1) \div (e.ngpown * e.ncouls), ((k - 1) \div e.ncouls) % e.ngpown, (k - 1) % e.ncouls>>

(* The term of the sum as the claim words it, for the arrays e of entry:   *)
(* wtilde_array and I_eps_array are read at (my_igp, ig), aqsmtemp,        *)
(* aqsntemp and vcoul at column igp = indinv[inv_igp_index[my_igp]]; the   *)
(* value is delw I_eps conj(aqsm) aqsn 0.5 vcoul, multiplied from the      *)
(* left, with delw = wtilde conj(wdiff) (1 / real(wdiff conj(wdiff))).     *)
ClaimTerm(e, tr, iw) ==
    LET igp == e.indinv[e.inv_igp_index[tr[2]]]
        wt  == e.wtilde_array[tr[2] * e.ncouls + tr[3]]
        eps == e.I_eps_array[tr[2] * e.ncouls + tr[3]]
        am  == e.aqsmtemp[tr[1] * e.ncouls + igp]
        an  == e.aqsntemp[tr[1] * e.ncouls + igp]
        wd  == Cx(DSub(e.wx_array[iw], wt.re), DNeg(wt.im))
        n2  == CustomComplex_mul(wd, CustomComplex_conj(wd)).re
        dw  == CustomComplex_scale(CustomComplex_mul(wt, CustomComplex_conj(wd)),
                                   DDiv(DInt(1), n2))
    IN  CustomComplex_scale(
            CustomComplex_scale(
                CustomComplex_mul(
                    CustomComplex_mul(CustomComplex_mul(dw, eps), CustomComplex_conj(am)),
                    an),
                DLit(1, 2)),
            e.vcoul[igp])

(* The sum so far plus the terms of the triples k .. TripleCount(e), added *)
(* one after the other in lexicographic order.                             *)
RECURSIVE SumTerms(_, _, _, _)
SumTerms(e, iw, k, sofar) ==
    IF k > TripleCount(e) THEN sofar
    ELSE SumTerms(e, iw, k + 1,
            CHOOSE r \in { Cx(DAdd(s.re, term.re), DAdd(s.im, term.im))
                          : s \in {sofar}, term \in {ClaimTerm(e, TripleAt(e, k), iw)} } : TRUE)

(* C1: when noflagOCC_solver has returned, achtemp_re[iw] and              *)
(* achtemp_im[iw] are their values on entry plus the real and imaginary    *)
(* parts of the sum over all triples (n1, my_igp, ig) of the term, which   *)
(* reads aqsmtemp, aqsntemp and vcoul at column igp; each triple counts    *)
(* once.  The sum is the one of double arithmetic, the terms added in      *)
(* lexicographic order of the triples.                                     *)
C1_AccumulatedSum ==
    Returned =>
        \A iw \in FreqIndices :
            LET sum == SumTerms(hist.entry, iw, 1,
                                Cx(hist.entry.achtemp_re[iw], hist.entry.achtemp_im[iw]))
            IN  /\ ks.achtemp_re[iw] = sum.re
                /\ ks.achtemp_im[iw] = sum.im

(* A call over 2 x 2 x 2 triples has returned with changed accumulators,   *)
(* and some group point resolved to a column other than its own index.     *)
C1_Witness ==
    /\ Returned
    /\ ks.number_bands = 2 /\ ks.ngpown = 2 /\ ks.ncouls = 2
    /\ ks.achtemp_re # hist.entry.achtemp_re
    /\ ks.achtemp_im # hist.entry.achtemp_im
    /\ \E m \in 0 .. 1 : ks.indinv[ks.inv_igp_index[m]] # m

ReadOnlyFields ==
    {"number_bands", "ngpown", "ncouls", "inv_igp_index", "indinv", "wx_array",
     "wtilde_array", "aqsmtemp", "aqsntemp", "I_eps_array", "vcoul"}

(* C4 as stated: after the return every caller-visible value passed to the *)
(* function other than achtemp_re and achtemp_im is as on entry.           *)
C4_Original ==
    Returned =>
        /\ \A f \in ReadOnlyFields : ks[f] = hist.entry[f]
        /\ ks.elapsedKernelTimer = hist.entry.elapsedKernelTimer

(* C4 amended: after the return the sizes, the index maps, wx_array,       *)
(* wtilde_array, aqsmtemp, aqsntemp, I_eps_array and vcoul are as on       *)
(* entry; the function writes achtemp_re, achtemp_im and the out-parameter *)
(* elapsedKernelTimer only, the latter after the loop nest.                *)
C4_FrameExceptTimer ==
    /\ ks.pc # "ub" => \A f \in ReadOnlyFields : ks[f] = hist.entry[f]
    /\ InLoop(ks) \/ ks.pc = "timer" =>
            ks.elapsedKernelTimer = hist.entry.elapsedKernelTimer

(* The call has returned after accumulating, with the timer written. *)
C4_Witness ==
    /\ Returned
    /\ Len(hist.visited) > 0
    /\ ks.achtemp_re # hist.entry.achtemp_re
    /\ ks.elapsedKernelTimer # hist.entry.elapsedKernelTimer

EmptyRange(e) == e.number_bands = 0 \/ e.ngpown = 0 \/ e.ncouls = 0

DataArrays == {"wtilde_array", "I_eps_array", "aqsmtemp", "aqsntemp", "vcoul"}

(* C5: with number_bands = 0, ngpown = 0 or ncouls = 0 the call never      *)
(* accumulates, never reads a data array, reads the index maps only inside *)
(* their extents, and leaves achtemp_re and achtemp_im as on entry (zero   *)
(* when the caller zeroed them).                                           *)
C5_EmptyRange ==
    EmptyRange(hist.entry) =>
        /\ ks.pc # "ub"
        /\ hist.visited = <<>>
        /\ ks.achtemp_re = hist.entry.achtemp_re
        /\ ks.achtemp_im = hist.entry.achtemp_im
        /\ hist.entry.achtemp_re = MainAchtemp => ks.achtemp_re = MainAchtemp
        /\ hist.entry.achtemp_im = MainAchtemp => ks.achtemp_im = MainAchtemp
        /\ \A a \in hist.accesses : a[1] \notin DataArrays /\ InExtent(ks, a)

(* A call with bands and group points but no plane wave has returned: the  *)
(* index maps were read, the accumulators are still zero.                  *)
C5_Witness ==
    /\ Returned
    /\ ks.ncouls = 0 /\ ks.number_bands > 0 /\ ks.ngpown > 0
    /\ Len(hist.resolved) = ks.number_bands * ks.ngpown
    /\ ks.achtemp_re = MainAchtemp /\ ks.achtemp_im = MainAchtemp

(* The tuples (n1, my_igp, ig, iw) in lexicographic order. *)
LexOrder(e) ==
    [k \in 1 .. (e.number_bands * e.ngpown * e.ncouls * (nend - nstart)) |->
        <<((k - 1) \div ((nend - nstart) * e.ncouls * e.ngpown)),
          ((k - 1) \div ((nend - nstart) * e.ncouls)) % e.ngpown,
          ((k - 1) \div (nend - nstart)) % e.ncouls,
          nstart + ((k - 1) % (nend - nstart))>>]

(* The pairs (n1, my_igp) in lexicographic order. *)
PairOrder(e) ==
    [k \in 1 .. (e.number_bands * e.ngpown) |->
        <<(k - 1) \div e.ngpown, (k - 1) % e.ngpown>>]

StepsFor(iw) == {k \in DOMAIN hist.visited : hist.visited[k][4] = iw}

C9_Counts ==
    /\ Len(hist.visited) = 3 * ks.number_bands * ks.ngpown * ks.ncouls
    /\ \A iw \in FreqIndices :
            Cardinality(StepsFor(iw)) = ks.number_bands * ks.ngpown * ks.ncouls
    /\ hist.visited = LexOrder(ks)
    /\ hist.resolved = PairOrder(ks)

(* C9: the loop nest terminates, and when the call has returned it has     *)
(* made number_bands * ngpown * ncouls accumulation steps for each iw, in  *)
(* lexicographic order of (n1, my_igp, ig, iw), and has resolved the index *)
(* once per (n1, my_igp) pair.                                             *)
C9_TerminatesInOrder == (<>Returned) /\ [](Returned => C9_Counts)

(* The call over 2 x 2 x 2 triples has returned after 24 steps. *)
C9_Witness ==
    /\ Returned
    /\ ks.number_bands = 2 /\ ks.ngpown = 2 /\ ks.ncouls = 2
    /\ Len(hist.visited) = 24 /\ Len(hist.resolved) = 4

(* C3: in a call with the index maps of main, every access is inside the   *)
(* extent of its array: inv_igp_index in [0, ngpown), indinv in            *)
(* [0, ncouls], the 2D arrays at rows and columns inside their dimensions, *)
(* vcoul in [0, ncouls), wx_array and the accumulators in [0, 3).          *)
C3_AccessesInExtent ==
    ks.inv_igp_index = MainInvIgpIndex(ks.ngpown, ks.ncouls)
        /\ ks.indinv = MainIndinv(ks.ncouls) =>
            /\ ks.pc # "ub"
            /\ \A a \in hist.accesses : InExtent(ks, a)
            /\ ks.pc = "ig_test" => 0 <= ks.indigp /\ ks.indigp <= ks.ncouls

(* A call with main's maps has returned after reading every array, the     *)
(* extra slot indinv[ncouls] included.                                     *)
C3_Witness ==
    /\ Returned
    /\ ks.inv_igp_index = MainInvIgpIndex(ks.ngpown, ks.ncouls)
    /\ ks.indinv = MainIndinv(ks.ncouls)
    /\ ks.number_bands = 2 /\ ks.ngpown = 2 /\ ks.ncouls = 2
    /\ <<"indinv", ks.ncouls, 0>> \in hist.accesses
    /\ {a[1] : a \in hist.accesses} =
          {"inv_igp_index", "indinv", "wx_array", "wtilde_array", "I_eps_array",
           "aqsmtemp", "aqsntemp", "vcoul", "achtemp_re", "achtemp_im"}


(***************************************************************************)
(* MapSpec: the index maps as main builds them (lines 280-285) and the     *)
(* resolution of every my_igp (lines 104-105), for ncouls >= 1 and         *)
(* ngpown in 1 .. ncouls.                                                  *)
(***************************************************************************)
MaxMapCouls == 12

MapInit ==
    /\ \E nc \in 1 .. MaxMapCouls : \E ng \in 1 .. nc :
          aux = [pc |-> "fill", ngpown |-> ng, ncouls |-> nc, my_igp |-> 0,
                 inv_igp_index |-> <<>>, indinv |-> <<>>,
                 indigp |-> 0, igp |-> 0, ig |-> 0, resolved |-> 0]
    /\ ks = Idle
    /\ hist = NoHist
    /\ env = Idle

(* lines 280-285 *)
MapFill ==
    /\ aux.pc = "fill"
    /\ IntMulFits(aux.ngpown, aux.ncouls)
    /\ aux' = [aux EXCEPT !.inv_igp_index = MainInvIgpIndex(aux.ngpown, aux.ncouls),
                          !.indinv = MainIndinv(aux.ncouls),
                          !.pc = "resolve"]
    /\ UNCHANGED <<ks, hist, env>>

(* lines 104-105 for the next my_igp *)
MapResolve ==
    /\ aux.pc = "resolve"
    /\ aux.my_igp < aux.ngpown
    /\ aux' = [Resolve(aux) EXCEPT !.pc = IF @ = "ub" THEN "ub" ELSE "resolve",
                                   !.my_igp = aux.my_igp + 1,
                                   !.resolved = aux.resolved + 1]
    /\ UNCHANGED <<ks, hist, env>>

MapNext == MapFill \/ MapResolve

MapSpec == MapInit /\ [][MapNext]_vars

(* C2: with the maps of main, ncouls >= 1 and ngpown in 1 .. ncouls, the   *)
(* index igp = indinv[inv_igp_index[my_igp]] lies in [0, ncouls) for every *)
(* my_igp in [0, ngpown).                                                  *)
C2_ResolvedInRange ==
    /\ aux.pc # "ub"
    /\ aux.pc = "resolve" =>
          /\ \A m \in 0 .. (aux.ngpown - 1) :
                /\ aux.inv_igp_index[m] \in DOMAIN aux.indinv
                /\ 0 <= aux.indinv[aux.inv_igp_index[m]]
                /\ aux.indinv[aux.inv_igp_index[m]] < aux.ncouls
          /\ aux.resolved > 0 => 0 <= aux.igp /\ aux.igp < aux.ncouls

(* The last my_igp has been resolved through the extra slot               *)
(* indinv[ncouls], to ncouls - 1.                                          *)
C2_Witness ==
    /\ aux.pc = "resolve"
    /\ aux.ngpown > 1
    /\ aux.my_igp = aux.ngpown
    /\ aux.indigp = aux.ncouls
    /\ aux.igp = aux.ncouls - 1

(***************************************************************************)
(* MainSpec: the sizing done by main, lines 143-192, its allocations,      *)
(* lines 222-254, and the call of noflagOCC_solver, line 325.  atoi is     *)
(* modelled by its result; memory tells whether malloc can serve the       *)
(* requests of the run.                                                    *)
(***************************************************************************)
MaxArg == 3

ArgVals == (-1) .. MaxArg

CommandLines ==
    {[argc |-> 1, argv |-> <<>>]}
    \cup {[argc |-> 2, argv |-> <<w>>] : w \in {"benchmark", "test", "other"}}
    \cup {[argc |-> 3, argv |-> <<"1", "2">>]}
    \cup {[argc |-> 5, argv |-> <<a, b, c, d>>] :
              a \in ArgVals, b \in ArgVals, c \in ArgVals, d \in ArgVals}

MainInit ==
    /\ \E cl \in CommandLines, mem \in {"enough", "short"} :
          env = [pc |-> "args", argc |-> cl.argc, argv |-> cl.argv, memory |-> mem,
                 number_bands |-> 0, nvband |-> 0, ncouls |-> 0,
                 nodes_per_group |-> 0, ngpown |-> 0, call |-> <<>>]
    /\ ks = Idle
    /\ hist = NoHist
    /\ aux = Idle

Sized(e, nb, nv, nc, npg) ==
    [e EXCEPT !.number_bands = nb, !.nvband = nv, !.ncouls = nc,
              !.nodes_per_group = npg, !.pc = "sized"]

(* lines 144-191 *)
ParseArgs(e) ==
    IF e.argc = 1 THEN Sized(e, 512, 2, 512, 20)
    ELSE IF e.argc = 2
         THEN IF e.argv[1] = "benchmark" THEN Sized(e, 512, 2, 32768, 20)
              ELSE IF e.argv[1] = "test" THEN Sized(e, 512, 2, 512, 20)
              ELSE [e EXCEPT !.pc = "exit0"]
    ELSE IF e.argc = 5
         THEN Sized(e, e.argv[1], e.argv[2], e.argv[3], e.argv[4])
    ELSE [e EXCEPT !.pc = "exit0"]

(* Mutant: the quotient rounded up. *)
Ngpown_rounding_up(nc, npg) == IntDiv(nc + npg - 1, npg)

(* line 192: int ngpown = ncouls / nodes_per_group *)
Ngpown(nc, npg) == IntDiv(nc, npg)

(* The element counts of the allocations of lines 222-254, in their order: *)
(* achtemp, aqsmtemp, aqsntemp, I_eps_array, wtilde_array, vcoul,          *)
(* inv_igp_index, indinv, achtemp_re, achtemp_im, wx_array (the *_size     *)
(* macros, from section 6 of the specification).                           *)
AllocCounts(e) ==
    << nend - nstart,
       e.number_bands * e.ncouls, e.number_bands * e.ncouls,
       e.ngpown * e.ncouls, e.ngpown * e.ncouls,
       e.ncouls, e.ngpown, e.ncouls + 1,
       nend - nstart, nend - nstart, nend - nstart >>

(* lines 16-26: safe_malloc(count * sizeof(T)) aborts when malloc returns  *)
(* NULL.  A negative count converts to a size_t above 2^63, which no       *)
(* malloc serves.                                                          *)
SafeMallocFails(count, memory) == count < 0 \/ memory = "short"

(* line 79: an int argument converted to the size_t parameter, modulo 2^64 *)
SizeT(n) == IF n >= 0 THEN BOfInt(n) ELSE BSub(BShl(<<1>>, 64), BOfInt(-n))

MainParseArgs ==
    /\ env.pc = "args"
    /\ env' = ParseArgs(env)
    /\ UNCHANGED <<ks, hist, aux>>

(* line 192 *)
MainComputeNgpown ==
    /\ env.pc = "sized"
    /\ env.nodes_per_group # 0
    /\ env' = [env EXCEPT !.ngpown = Ngpown(env.ncouls, env.nodes_per_group),
                          !.pc = "alloc"]
    /\ UNCHANGED <<ks, hist, aux>>

(* line 192 with nodes_per_group = 0: an integer division by zero is       *)
(* undefined; the build either traps or goes on with some quotient.        *)
MainDivideByZero ==
    /\ env.pc = "sized"
    /\ env.nodes_per_group = 0
    /\ \/ env' = [env EXCEPT !.pc = "trap"]
       \/ \E q \in ArgVals : env' = [env EXCEPT !.ngpown = q, !.pc = "alloc"]
    /\ UNCHANGED <<ks, hist, aux>>

(* lines 222-254 with some allocation failing: abort() *)
MainAbort ==
    /\ env.pc = "alloc"
    /\ \E i \in DOMAIN AllocCounts(env) : SafeMallocFails(AllocCounts(env)[i], env.memory)
    /\ env' = [env EXCEPT !.pc = "abort"]
    /\ UNCHANGED <<ks, hist, aux>>

(* lines 222-321 with every allocation served, up to the call of line 325, *)
(* which converts the three sizes to size_t                                *)
MainCall ==
    /\ env.pc = "alloc"
    /\ \A i \in DOMAIN AllocCounts(env) : ~SafeMallocFails(AllocCounts(env)[i], env.memory)
    /\ env' = [env EXCEPT !.call = [number_bands |-> SizeT(env.number_bands),
                                    ngpown |-> SizeT(env.ngpown),
                                    ncouls |-> SizeT(env.ncouls)],
                          !.pc = "call"]
    /\ UNCHANGED <<ks, hist, aux>>

MainNext ==
    \/ MainParseArgs
    \/ MainComputeNgpown
    \/ MainDivideByZero
    \/ MainAbort
    \/ MainCall

MainSpec == MainInit /\ [][MainNext]_vars

AtCall == env.pc = "call"

BuiltInSizing == env.argc \in {1, 2}

(* C6 as stated: at the call the three sizes are positive and ncouls is an *)
(* exact multiple of nodes_per_group.                                      *)
C6_Original ==
    AtCall =>
        /\ env.call.number_bands # <<>> /\ env.call.ngpown # <<>> /\ env.call.ncouls # <<>>
        /\ env.ngpown * env.nodes_per_group = env.ncouls

(* C6 amended: at the call with the default, test or benchmark sizing the  *)
(* three sizes are positive and ngpown is the truncated quotient of ncouls *)
(* by nodes_per_group = 20, of which ncouls is not a multiple.  With four  *)
(* arguments the call is reached only with ncouls >= 0, ngpown >= 0 and    *)
(* number_bands * ncouls >= 0 (a negative element count makes safe_malloc  *)
(* abort); for nodes_per_group # 0, ngpown is the quotient truncated       *)
(* towards zero, and the three sizes are positive exactly when             *)
(* number_bands >= 1 and ncouls >= nodes_per_group >= 1; a negative        *)
(* number_bands reaches the kernel, with ncouls = 0, as the size_t         *)
(* 2^64 + number_bands.  With nodes_per_group = 0 the division of line 192 *)
(* is undefined and nothing is said of ngpown; the run traps only there.   *)
C6_TruncatedQuotient ==
    /\ env.pc = "trap" => env.argc = 5 /\ env.nodes_per_group = 0
    /\ AtCall =>
        /\ env.ncouls >= 0 /\ env.ngpown >= 0 /\ env.number_bands * env.ncouls >= 0
        /\ env.call.ncouls = BOfInt(env.ncouls)
        /\ env.call.ngpown = BOfInt(env.ngpown)
        /\ env.number_bands >= 0 => env.call.number_bands = BOfInt(env.number_bands)
        /\ env.number_bands < 0 =>
              /\ env.ncouls = 0
              /\ BitLen(env.call.number_bands) = 64
              /\ BAdd(env.call.number_bands, BOfInt(-env.number_bands)) = BShl(<<1>>, 64)
        /\ env.nodes_per_group # 0 =>
              /\ env.ngpown * Abs(env.nodes_per_group) <= env.ncouls
              /\ env.ncouls < (env.ngpown + 1) * Abs(env.nodes_per_group)
              /\ env.nodes_per_group < 0 => env.ngpown = 0
        /\ BuiltInSizing =>
              /\ env.number_bands = 512
              /\ env.nodes_per_group = 20
              /\ <<env.ncouls, env.ngpown>> \in {<<512, 25>>, <<32768, 1638>>}
              /\ env.ngpown * env.nodes_per_group < env.ncouls
        /\ (env.argc = 5 /\ env.nodes_per_group # 0) =>
              ((env.call.number_bands # <<>> /\ env.call.ngpown # <<>> /\ env.call.ncouls # <<>>)
                  <=> (/\ env.number_bands >= 1
                       /\ env.nodes_per_group >= 1
                       /\ env.ncouls >= env.nodes_per_group))

(* The call is reached with the benchmark sizing: 32768 / 20 = 1638. *)
C6_Witness ==
    /\ AtCall
    /\ env.argc = 2 /\ env.argv = <<"benchmark">>
    /\ env.ncouls = 32768 /\ env.ngpown = 1638
    /\ env.call.ngpown = BOfInt(1638)

(***************************************************************************)
(* CheckSpec: correctness(problem_size, result), lines 37-76, and the      *)
(* choice of problem_size by main, lines 332-341.  The results are the     *)
(* doubles nearest to decimals with six places around the reference        *)
(* values; a decimal is held as a whole part w and a count u of millionths *)
(* in 0 .. 999999, its value being w + u / 10^6.                           *)
(***************************************************************************)
Million == 1000000

Dec(w, u) == [w |-> w, u |-> u]

(* a + m millionths, m any integer *)
DecShift(a, m) ==
    LET tot == a.u + m
        q == IF tot >= 0 THEN tot \div Million ELSE -((Million - 1 - tot) \div Million)
    IN  Dec(a.w + q, tot - q * Million)

(* The double a decimal literal denotes: the one nearest to its value. *)
DOfDec(a) ==
    IF a.w >= 0
    THEN IF a.w = 0 /\ a.u = 0 THEN DZero(0)
         ELSE DRoundRatio(0, BAdd(BMul(BOfInt(a.w), BOfInt(Million)), BOfInt(a.u)),
                          BOfInt(Million), 0)
    ELSE DRoundRatio(1, BSub(BMul(BOfInt(-a.w), BOfInt(Million)), BOfInt(a.u)),
                     BOfInt(Million), 0)

(* lines 45 and 64: 0.00001 *)
Tolerance == DLit(1, 100000)

(* line 42: -24852.551547; line 43: 2957453.638101 *)
BenchmarkRef == [re |-> Dec(-24853, 448453), im |-> Dec(2957453, 638101)]

(* line 61: -0.096066; line 62: 11.431852 *)
TestRef == [re |-> Dec(-1, 903934), im |-> Dec(11, 431852)]

(* lines 40-75: TRUE for SUCCESS, FALSE for FAILURE and exit(EXIT_FAILURE) *)
correctness(problem_size, result) ==
    IF problem_size = 0
    THEN LET re_diff == DSub(result.re, DOfDec(BenchmarkRef.re))
             im_diff == DSub(result.im, DOfDec(BenchmarkRef.im))
         IN  DLess(re_diff, Tolerance) /\ DLess(im_diff, Tolerance)
    ELSE LET re_diff == DSub(result.re, DOfDec(TestRef.re))
             im_diff == DSub(result.im, DOfDec(TestRef.im))
         IN  DLess(re_diff, Tolerance) /\ DLess(im_diff, Tolerance)

(* lines 333-341: the reference main checks against *)
ProblemSize(argc, argv) ==
    IF argc = 2 /\ argv[1] = "benchmark" THEN 0 ELSE 1

(* Distances of a result from the reference, in millionths. *)
Offsets == {-2 * Million, -11, -10, -9, 0, 9, 10, 11, 2 * Million}

RefOf(problem_size) == IF problem_size = 0 THEN BenchmarkRef ELSE TestRef

CheckInit ==
    /\ \E cl \in {[argc |-> 1, argv |-> <<>>], [argc |-> 2, argv |-> <<"benchmark">>],
                  [argc |-> 2, argv |-> <<"test">>]} :
       \E dre \in Offsets, dim \in Offsets :
          aux = [pc |-> "check",
                 problem_size |-> ProblemSize(cl.argc, cl.argv),
                 argc |-> cl.argc,
                 dre |-> dre, dim |-> dim,
                 result |-> [re |-> DOfDec(DecShift(RefOf(ProblemSize(cl.argc, cl.argv)).re, dre)),
                             im |-> DOfDec(DecShift(RefOf(ProblemSize(cl.argc, cl.argv)).im, dim))]]
    /\ ks = Idle
    /\ hist = NoHist
    /\ env = Idle

(* lines 45-50 and 64-69 *)
CheckSuccess ==
    /\ aux.pc = "check"
    /\ correctness(aux.problem_size, aux.result)
    /\ aux' = [aux EXCEPT !.pc = "success"]
    /\ UNCHANGED <<ks, hist, env>>

(* lines 51-57 and 70-74 *)
CheckFailure ==
    /\ aux.pc = "check"
    /\ ~correctness(aux.problem_size, aux.result)
    /\ aux' = [aux EXCEPT !.pc = "exit_failure"]
    /\ UNCHANGED <<ks, hist, env>>

CheckNext == CheckSuccess \/ CheckFailure

CheckSpec == CheckInit /\ [][CheckNext]_vars

(* |result - ref| < 1e-5 on both components, the differences being those   *)
(* of the doubles                                                          *)
WithinTolerance(problem_size, result) ==
    /\ DLess(DAbs(DSub(result.re, DOfDec(RefOf(problem_size).re))), Tolerance)
    /\ DLess(DAbs(DSub(result.im, DOfDec(RefOf(problem_size).im))), Tolerance)

(* C7: correctness reports success only for a result within 1e-5 of the    *)
(* reference on both components, and exits with EXIT_FAILURE otherwise.    *)
C7_WithinTolerance ==
    /\ aux.pc = "success" => WithinTolerance(aux.problem_size, aux.result)
    /\ aux.pc = "exit_failure" => ~WithinTolerance(aux.problem_size, aux.result)


(***************************************************************************)
(* LinSpec: two calls of noflagOCC_solver from zeroed accumulators, the    *)
(* second with every vcoul[i] multiplied by k.  exact records whether no   *)
(* operation of the two calls, nor of the scaling, has rounded.            *)
(***************************************************************************)
MaxK == 3

(* The calls compared make at most MaxLinTriples iterations (n1, my_igp, ig). *)
MaxLinTriples == 4

(* The factors k: the halves from -MaxK / 2 to MaxK / 2. *)
Factors == {DLit(n, 2) : n \in (-MaxK) .. MaxK}

Scaled(v, k) == [i \in DOMAIN v |-> DMul(k, v[i])]

Outcome(s) == [pc |-> s.pc, achtemp_re |-> s.achtemp_re, achtemp_im |-> s.achtemp_im]

LinInit ==
    /\ \E nb \in 0 .. MaxBands, ng \in 0 .. MaxGpown, nc \in 0 .. MaxCouls :
          /\ nb * ng * nc <= MaxLinTriples
          /\ \/ ks = KernelEntry(nb, ng, nc, "main", 0)
             \/ \E sd \in Seeds :
                   ks = [KernelEntry(nb, ng, nc, "other", sd)
                            EXCEPT !.achtemp_re = MainAchtemp, !.achtemp_im = MainAchtemp]
    /\ aux = [pc |-> "first", k |-> <<>>, first |-> <<>>, second |-> <<>>, exact |-> TRUE]
    /\ hist = [NoHist EXCEPT !.entry = ks]
    /\ env = Idle

(* the first call, lines 99-127 *)
LinRunFirst ==
    /\ aux.pc = "first"
    /\ aux' = [aux EXCEPT !.first = Outcome(RunLoop(ks)),
                          !.exact = RunExact(ks),
                          !.pc = "second"]
    /\ UNCHANGED <<ks, hist, env>>

(* the second call, on k * vcoul for some factor k *)
LinRunSecond ==
    /\ aux.pc = "second"
    /\ \E k \in Factors :
          aux' = [aux EXCEPT
                    !.k = k,
                    !.second = Outcome(RunLoop([ks EXCEPT !.vcoul = Scaled(ks.vcoul, k)])),
                    !.exact = /\ aux.exact
                              /\ \A i \in DOMAIN ks.vcoul : DMulExact(k, ks.vcoul[i])
                              /\ RunExact([ks EXCEPT !.vcoul = Scaled(ks.vcoul, k)]),
                    !.pc = "compared"]
    /\ UNCHANGED <<ks, hist, env>>

LinNext == LinRunFirst \/ LinRunSecond

LinSpec == LinInit /\ [][LinNext]_vars

(* A factor that is plus or minus a power of two: multiplying by it rounds *)
(* nothing (no result here is subnormal or overflows).                     *)
ScalesExactly(k) == k.k = "fin" /\ k.m = <<1>>

(* C8: when no operation has rounded (the arithmetic is exact), the        *)
(* accumulators of the call on k * vcoul are k times those of the call on  *)
(* vcoul, for every iw, both calls starting from zero; the same holds,     *)
(* rounding or not, for the factors that are plus or minus a power of two. *)
C8_LinearInVcoul ==
    aux.pc = "compared" =>
        /\ aux.first.pc = "timer" /\ aux.second.pc = "timer"
        /\ (aux.exact \/ ScalesExactly(aux.k)) =>
              \A iw \in FreqIndices :
                  /\ DMulExact(aux.k, aux.first.achtemp_re[iw])
                  /\ DMulExact(aux.k, aux.first.achtemp_im[iw])
                  /\ DEq(aux.second.achtemp_re[iw], DMul(aux.k, aux.first.achtemp_re[iw]))
                  /\ DEq(aux.second.achtemp_im[iw], DMul(aux.k, aux.first.achtemp_im[iw]))

(* Both calls are over without any rounding, with a factor that is not a   *)
(* power of two and non-zero sums over four triples and two values of igp. *)
C8_Witness ==
    /\ aux.pc = "compared"
    /\ aux.exact
    /\ aux.k = DLit(-3, 2)
    /\ ks.number_bands * ks.ngpown * ks.ncouls = MaxLinTriples
    /\ ks.ngpown = 2 /\ ks.ncouls = 2
    /\ \A iw \in FreqIndices :
          aux.first.achtemp_re[iw].m # <<>> /\ aux.first.achtemp_im[iw].m # <<>>
    /\ aux.second # aux.first

(***************************************************************************)
(* ParSpec: the iterations (n1, my_igp, ig) of the loop nest shared among  *)
(* workers; a worker takes any iteration not yet taken, resolves igp, and  *)
(* for iw = 0, 1, 2 adds to achtemp_re[iw] and to achtemp_im[iw], each     *)
(* addition being one atomic step (the hint of line 121).  exact records   *)
(* whether no operation of the workers has rounded.                        *)
(***************************************************************************)
NWorkers == 2

MaxParTriples == 2

(* The loop variables of the worker, over the shared memory s. *)
View(s, wk) ==
    [s EXCEPT !.n1 = wk.tr[1], !.my_igp = wk.tr[2], !.ig = wk.tr[3],
              !.iw = wk.iw, !.igp = wk.igp]

(* aux.w holds the workers at work, at most NWorkers of them: each with    *)
(* its iteration tr, its iw and igp, and its sch_array of line 118.        *)
ParInit ==
    /\ \E nb \in 0 .. MaxBands, ng \in 0 .. MaxGpown, nc \in 0 .. MaxCouls,
          sd \in Seeds :
            /\ nb * ng * nc <= MaxParTriples
            /\ ks = [KernelEntry(nb, ng, nc, "other", sd) EXCEPT !.pc = "parallel"]
    /\ aux = [pending |-> Triples(ks), w |-> {}, overlap |-> FALSE, exact |-> TRUE]
    /\ hist = [NoHist EXCEPT !.entry = [ks EXCEPT !.pc = "n1_test"]]
    /\ env = Idle

(* lines 104-105 for the iteration taken by a worker that has none *)
ParTake ==
    /\ Cardinality(aux.w) < NWorkers
    /\ \E tr \in aux.pending :
          LET r == Resolve(View(ks, [tr |-> tr, iw |-> nstart, igp |-> 0]))
          IN  /\ r.pc # "ub"
              /\ aux' = [aux EXCEPT
                           !.pending = @ \ {tr},
                           !.w = @ \cup {[pc |-> "re", tr |-> tr, iw |-> nstart,
                                          igp |-> r.igp, sch |-> <<>>]},
                           !.overlap = @ \/ aux.w # {}]
    /\ UNCHANGED <<ks, hist, env>>

(* lines 112-119, then line 122 atomically *)
ParAddRe(wk) ==
    /\ wk.pc = "re"
    /\ \E sch \in {sch_array(View(ks, wk))} :
          /\ ks' = AddRe(ks, wk.iw, CustomComplex_real(sch))
          /\ aux' = [aux EXCEPT
                       !.w = (@ \ {wk}) \cup {[wk EXCEPT !.pc = "im", !.sch = sch]},
                       !.exact = @ /\ SchExact(View(ks, wk))
                                   /\ DAddExact(ks.achtemp_re[wk.iw],
                                                CustomComplex_real(sch))]
    /\ UNCHANGED <<hist, env>>

(* line 123, atomically, then ++iw *)
ParAddIm(wk) ==
    /\ wk.pc = "im"
    /\ ks' = AddIm(ks, wk.iw, CustomComplex_imag(wk.sch))
    /\ aux' = [aux EXCEPT
                 !.w = IF wk.iw + 1 < nend
                       THEN (@ \ {wk}) \cup
                               {[wk EXCEPT !.iw = @ + 1, !.pc = "re", !.sch = <<>>]}
                       ELSE @ \ {wk},
                 !.exact = @ /\ DAddExact(ks.achtemp_im[wk.iw],
                                          CustomComplex_imag(wk.sch))]
    /\ UNCHANGED <<hist, env>>

ParNext == ParTake \/ \E wk \in aux.w : ParAddRe(wk) \/ ParAddIm(wk)

ParSpec == ParInit /\ [][ParNext]_vars

AllDone == aux.pending = {} /\ aux.w = {}

(* C10: the workers write achtemp_re and achtemp_im only, and when every   *)
(* iteration is done, in whatever interleaving, and no operation has       *)
(* rounded (the arithmetic is exact), neither of the workers nor of the    *)
(* sequential loop nest, the accumulators are those of the sequential loop *)
(* nest.                                                                   *)
C10_ParallelEqualsSequential ==
    /\ \A f \in ReadOnlyFields : ks[f] = hist.entry[f]
    /\ AllDone /\ aux.exact /\ RunExact(hist.entry) =>
          LET seq == RunLoop(hist.entry)
          IN  /\ seq.pc = "timer"
              /\ ks.achtemp_re = seq.achtemp_re
              /\ ks.achtemp_im = seq.achtemp_im

(* Two iterations are done without any rounding, two workers having been   *)
(* at work at the same time, and the accumulators have changed.            *)
C10_Witness ==
    /\ AllDone
    /\ aux.exact
    /\ RunExact(hist.entry)
    /\ aux.overlap
    /\ ks.number_bands * ks.ngpown * ks.ncouls = 2
    /\ ks.achtemp_re # hist.entry.achtemp_re
    /\ ks.achtemp_im # hist.entry.achtemp_im

=============================================================================
